---- MODULE Spec2Model ----
(***************************************************************************)
(* i18n usage analyzer (tools/i18n-analyzer/main.py): comment stripping,   *)
(* indentation-stack key extraction, the t() reference scanners and the    *)
(* reconciliation done by main.                                            *)
(*                                                                         *)
(* Texts are sequences of one-character strings; the regular expressions   *)
(* of the source are operators over those sequences.  KeyPaths are         *)
(* strings built by concatenating the matched characters.                  *)
(***************************************************************************)
EXTENDS Integers, Sequences, FiniteSets, TLC

\* ------------------------------------------------------------ bounds
MaxLines == 3
MaxIndent == 2

\* ------------------------------------------------------------ characters
NL == "\n"
SP == " "
\* \s of the regular expressions, within the model's alphabet
WhiteSpace == {SP, NL}
Letters ==
    {"a", "b", "c", "d", "e", "g", "i", "k", "l", "m", "n", "o", "r", "s", "t", "x", "y", "K"}
Digits == {"1", "8"}
\* [a-zA-Z_] and [a-zA-Z0-9_] of obj_pattern / value_pattern; \w of the lookbehind
IdentStart == Letters \cup {"_"}
IdentChar == Letters \cup Digits \cup {"_"}
\* the quote class of the patterns (single and double quote; the alphabet of
\* the model has no backtick)
Quotes == {"'", "\""}
\* [a-zA-Z0-9._\-] of the call patterns
KeyChar == Letters \cup Digits \cup {".", "_", "-"}

RECURSIVE Str(_)
\* the Python string made of the characters of cs
Str(cs) == IF cs = <<>> THEN "" ELSE Head(cs) \o Str(Tail(cs))

RECURSIVE Flatten(_)
Flatten(ss) == IF ss = <<>> THEN <<>> ELSE Head(ss) \o Flatten(Tail(ss))

RECURSIVE JoinLines(_)
\* the lines joined by newlines (str.join)
JoinLines(ls) ==
    IF ls = <<>> THEN <<>>
    ELSE IF Len(ls) = 1 THEN ls[1]
    ELSE ls[1] \o <<NL>> \o JoinLines(Tail(ls))

\* content[:match.start()].count(NL) + 1, for the 1-based position p of the match
LineNumAt(s, p) == Cardinality({i \in 1..(p - 1) : i <= Len(s) /\ s[i] = NL}) + 1

\* the number of lines of s: len(s.split(NL))
LineCount(s) == Cardinality({i \in 1..Len(s) : s[i] = NL}) + 1

\* ------------------------------------------------------------ comment stripping
RECURSIVE LineEnd(_, _)
\* where .*?$ (MULTILINE) stops: the next newline or the end of the text
LineEnd(s, i) == IF i > Len(s) \/ s[i] = NL THEN i ELSE LineEnd(s, i + 1)

RECURSIVE StripLineFrom(_, _)
StripLineFrom(s, i) ==
    IF i > Len(s) THEN <<>>
    ELSE IF i < Len(s) /\ s[i] = "/" /\ s[i + 1] = "/"
         THEN StripLineFrom(s, LineEnd(s, i + 2))
         ELSE <<s[i]>> \o StripLineFrom(s, i + 1)

\* re.sub of the pattern //.*?$ in MULTILINE mode
StripLineComments(s) == StripLineFrom(s, 1)

RECURSIVE BlockEnd(_, _)
\* position of the star of the first star-slash at or after i, 0 when there is none
BlockEnd(s, i) ==
    IF i >= Len(s) THEN 0
    ELSE IF s[i] = "*" /\ s[i + 1] = "/" THEN i
    ELSE BlockEnd(s, i + 1)

RECURSIVE StripBlockFrom(_, _)
StripBlockFrom(s, i) ==
    IF i > Len(s) THEN <<>>
    ELSE IF i < Len(s) /\ s[i] = "/" /\ s[i + 1] = "*" /\ BlockEnd(s, i + 2) # 0
         THEN StripBlockFrom(s, BlockEnd(s, i + 2) + 2)
         ELSE <<s[i]>> \o StripBlockFrom(s, i + 1)

\* re.sub of the pattern /\*.*?\*/ in DOTALL mode
StripBlockComments(s) == StripBlockFrom(s, 1)

\* the two substitutions every reader applies, in the source's order
StripComments(s) == StripBlockComments(StripLineComments(s))

\* ------------------------------------------------------------ declaration patterns
RECURSIVE SkipWhite(_, _)
\* \s* : the first position at or after i that holds no whitespace
SkipWhite(s, i) == IF i > Len(s) \/ s[i] \notin WhiteSpace THEN i ELSE SkipWhite(s, i + 1)

RECURSIVE SkipIdent(_, _)
\* [a-zA-Z0-9_]* : the first position at or after i that holds no identifier character
SkipIdent(s, i) == IF i > Len(s) \/ s[i] \notin IdentChar THEN i ELSE SkipIdent(s, i + 1)

\* ^ in MULTILINE mode
AtLineStart(s, p) == p = 1 \/ s[p - 1] = NL

HasAt(s, p, w) == p + Len(w) - 1 <= Len(s) /\ SubSeq(s, p, p + Len(w) - 1) = w

TypeToken == <<"s", "t", "r", "i", "n", "g", ";">>

\* ^\s*([a-zA-Z_][a-zA-Z0-9_]*)\s*: tried at p: the positions of the segment and
\* of the first non-blank after the colon, or ok = FALSE
KeyColonAt(s, p) ==
    LET q == SkipWhite(s, p)
        r == SkipIdent(s, q)
        c == SkipWhite(s, r)
    IN  IF AtLineStart(s, p) /\ q <= Len(s) /\ s[q] \in IdentStart
           /\ c <= Len(s) /\ s[c] = ":"
        THEN [ok |-> TRUE, key |-> Str(SubSeq(s, q, r - 1)), val |-> SkipWhite(s, c + 1)]
        ELSE [ok |-> FALSE, key |-> "", val |-> 0]

\* obj_pattern tried at p: the position of its last character, 0 for no match
ObjPatternEnd(s, p) ==
    LET m == KeyColonAt(s, p)
    IN  IF m.ok /\ m.val <= Len(s) /\ s[m.val] = "{" THEN m.val ELSE 0

\* value_pattern of the locale extractor tried at p
LocaleValuePatternEnd(s, p) ==
    LET m == KeyColonAt(s, p)
    IN  IF m.ok /\ m.val <= Len(s) /\ s[m.val] \in Quotes THEN m.val ELSE 0

\* value_pattern of the type extractor tried at p
TypesValuePatternEnd(s, p) ==
    LET m == KeyColonAt(s, p)
    IN  IF m.ok /\ HasAt(s, m.val, TypeToken) THEN m.val + Len(TypeToken) - 1 ELSE 0

PatternEnd(s, p, pat) ==
    CASE pat = "obj" -> ObjPatternEnd(s, p)
      [] pat = "locale_value" -> LocaleValuePatternEnd(s, p)
      [] pat = "types_value" -> TypesValuePatternEnd(s, p)

RECURSIVE FindIter(_, _, _)
\* pattern.finditer(content): leftmost matches, each search resuming after the
\* previous match; one tuple (position, line_num, key, is_category) per match
FindIter(s, from, pat) ==
    IF from > Len(s) THEN <<>>
    ELSE IF PatternEnd(s, from, pat) # 0
         THEN <<[position |-> from, line_num |-> LineNumAt(s, from),
                 key |-> KeyColonAt(s, from).key, is_category |-> (pat = "obj")]>>
              \o FindIter(s, PatternEnd(s, from, pat) + 1, pat)
         ELSE FindIter(s, from + 1, pat)

RECURSIVE SortByPosition(_, _)
\* all_matches.sort(key=position) of the two finditer lists (each ascending)
SortByPosition(a, b) ==
    IF a = <<>> THEN b
    ELSE IF b = <<>> THEN a
    ELSE IF a[1].position <= b[1].position
         THEN <<a[1]>> \o SortByPosition(Tail(a), b)
         ELSE <<b[1]>> \o SortByPosition(a, Tail(b))

AllMatches(s, valuePat) == SortByPosition(FindIter(s, 1, "obj"), FindIter(s, 1, valuePat))

RECURSIVE Split(_)
\* content.split(NL)
Split(s) ==
    IF \A i \in 1..Len(s) : s[i] # NL THEN <<s>>
    ELSE LET n == CHOOSE i \in 1..Len(s) : s[i] = NL /\ \A j \in 1..(i - 1) : s[j] # NL
         IN  <<SubSeq(s, 1, n - 1)>> \o Split(SubSeq(s, n + 1, Len(s)))

\* lines[line_num - 1] if line_num <= len(lines) else the empty string
CurrentLine(ls, line_num) == IF line_num <= Len(ls) THEN ls[line_num] ELSE <<>>

\* len(re.match(r'^(\s*)', current_line).group(1))
IndentLevel(line) == SkipWhite(line, 1) - 1

\* ------------------------------------------------------------ the indentation stack
RECURSIVE PopStackGt(_, _)
PopStackGt(stack, indent) ==
    IF stack # <<>> /\ stack[Len(stack)].indent > indent
    THEN PopStackGt(SubSeq(stack, 1, Len(stack) - 1), indent)
    ELSE stack

RECURSIVE PopStack(_, _)
\* while path_stack and path_stack[-1][1] >= indent_level: path_stack.pop()
PopStack(stack, indent) ==
    IF stack # <<>> /\ stack[Len(stack)].indent >= indent
    THEN PopStack(SubSeq(stack, 1, Len(stack) - 1), indent)
    ELSE stack

RECURSIVE DotJoin(_)
\* ".".join(segments)
DotJoin(segs) ==
    IF segs = <<>> THEN ""
    ELSE IF Len(segs) = 1 THEN segs[1]
    ELSE segs[1] \o "." \o DotJoin(Tail(segs))

StackSegments(stack) == [i \in 1..Len(stack) |-> stack[i].key]

NextStackPushAll(stack, m, indent) ==
    Append(PopStack(stack, indent), [key |-> m.key, indent |-> indent])

\* the path_stack after the body of the loop has run for one match
NextStack(stack, m, indent) ==
    IF m.is_category
    THEN Append(PopStack(stack, indent), [key |-> m.key, indent |-> indent])
    ELSE PopStack(stack, indent)

\* full_key of one match
FullKey(stack, m, indent) ==
    IF m.is_category
    THEN DotJoin(StackSegments(NextStack(stack, m, indent)))
    ELSE DotJoin(Append(StackSegments(PopStack(stack, indent)), m.key))

SetFirst(table, k, line) == (k :> line) @@ table

\* if full_key not in keys: keys[full_key] = line_num
RecordFirst(table, k, line) == IF k \in DOMAIN table THEN table ELSE (k :> line) @@ table

EmptyTable == [k \in {} |-> 0]

AddCategoryNever(cats, m, fk) == cats

\* categories.add(full_key) in the branch of a category
AddCategory(cats, m, fk) == IF m.is_category THEN cats \cup {fk} ELSE cats

\* ------------------------------------------------------------ one extraction run
RECURSIVE Extract(_, _, _, _, _, _)
\* the loop over all_matches from match i on: the (keys, categories) returned
Extract(ms, i, ls, stack, table, cats) ==
    IF i > Len(ms) THEN [keys |-> table, categories |-> cats]
    ELSE LET m == ms[i]
             indent == IndentLevel(CurrentLine(ls, m.line_num))
             fk == FullKey(stack, m, indent)
         IN  Extract(ms, i + 1, ls, NextStack(stack, m, indent),
                     RecordFirst(table, fk, m.line_num),
                     AddCategory(cats, m, fk))

\* extract_keys_from_locale on a file whose text is text
ExtractKeysFromLocale(text) ==
    Extract(AllMatches(StripComments(text), "locale_value"), 1, Split(text),
            <<>>, EmptyTable, {})

\* extract_keys_from_types on a file whose text is text (it returns keys alone)
ExtractKeysFromTypes(text) ==
    Extract(AllMatches(StripComments(text), "types_value"), 1, Split(text),
            <<>>, EmptyTable, {}).keys

\* EN_FILE, ZH_FILE and TYPES_FILE
EN_FILE == "frontend/src/i18n/locales/en.ts"
ZH_FILE == "frontend/src/i18n/locales/zh.ts"
TYPES_FILE == "frontend/src/i18n/types.ts"
Artifacts == {"en", "zh", "types"}
PathOf(a) == CASE a = "en" -> EN_FILE [] a = "zh" -> ZH_FILE [] a = "types" -> TYPES_FILE

\* what stands at the path of a declaration file: a readable text file, nothing,
\* or a file whose open() or read() raises (no permission, bytes that are not UTF-8)
DiskStates == {"file", "absent", "undecodable"}

ExtractLocaleFileNoCheck(d, text) ==
    IF d = "file"
    THEN ExtractKeysFromLocale(text) @@ [warned |-> FALSE, raised |-> FALSE]
    ELSE [keys |-> EmptyTable, categories |-> {}, warned |-> FALSE, raised |-> TRUE]

\* extract_keys_from_locale(file_path) from its first line: the exists() test with
\* its warning, then open/read outside any try, then the extraction; warned and
\* raised tell whether the warning was printed and whether the call raised
ExtractLocaleFile(d, text) ==
    IF d = "absent"
    THEN [keys |-> EmptyTable, categories |-> {}, warned |-> TRUE, raised |-> FALSE]
    ELSE IF d = "undecodable"
    THEN [keys |-> EmptyTable, categories |-> {}, warned |-> FALSE, raised |-> TRUE]
    ELSE ExtractKeysFromLocale(text) @@ [warned |-> FALSE, raised |-> FALSE]

\* extract_keys_from_types(file_path) in the same way; categories is the set the
\* function tracks through its stack and does not return
ExtractTypesFile(d, text) ==
    IF d = "absent"
    THEN [keys |-> EmptyTable, categories |-> {}, warned |-> TRUE, raised |-> FALSE]
    ELSE IF d = "undecodable"
    THEN [keys |-> EmptyTable, categories |-> {}, warned |-> FALSE, raised |-> TRUE]
    ELSE Extract(AllMatches(StripComments(text), "types_value"), 1, Split(text),
                 <<>>, EmptyTable, {})
         @@ [warned |-> FALSE, raised |-> FALSE]

\* ------------------------------------------------------------ call patterns
RECURSIVE SkipKeyChars(_, _)
\* [a-zA-Z0-9._\-]* : the first position at or after i that holds no key character
SkipKeyChars(s, i) == IF i > Len(s) \/ s[i] \notin KeyChar THEN i ELSE SkipKeyChars(s, i + 1)

RECURSIVE NextParen(_, _)
\* the first closing parenthesis at or after i, 0 when there is none
NextParen(s, i) ==
    IF i > Len(s) THEN 0 ELSE IF s[i] = ")" THEN i ELSE NextParen(s, i + 1)

\* a quoted key at q: quote, one or more key characters, quote
QuotedKeyAt(s, q) ==
    LET r == SkipKeyChars(s, q + 1)
    IN  IF q <= Len(s) /\ s[q] \in Quotes /\ r > q + 1 /\ r <= Len(s) /\ s[r] \in Quotes
        THEN [ok |-> TRUE, key |-> Str(SubSeq(s, q + 1, r - 1)), end |-> r]
        ELSE [ok |-> FALSE, key |-> "", end |-> 0]

\* the tail of the call patterns after the closing quote at position r:
\* \s*(?:,.+?)?\s*\) ; the position of the parenthesis that ends the match, or 0
CallTailEnd(s, r) ==
    LET w == SkipWhite(s, r + 1)
    IN  IF w > Len(s) THEN 0
        ELSE IF s[w] = ")" THEN w
        ELSE IF s[w] = "," THEN NextParen(s, w + 2)
        ELSE 0

CallAtAnyPrefix(s, p) ==
    LET k == QuotedKeyAt(s, SkipWhite(s, p + 2))
    IN  IF /\ p < Len(s) /\ s[p] = "t" /\ s[p + 1] = "("
           /\ k.ok /\ CallTailEnd(s, k.end) # 0
        THEN [ok |-> TRUE, key |-> k.key, end |-> CallTailEnd(s, k.end)]
        ELSE [ok |-> FALSE, key |-> "", end |-> 0]

\* the pattern of find_all_i18n_calls tried at p:
\* (?<!\w)t\(\s*[quote]([a-zA-Z0-9._\-]+)[quote]\s*(?:,.+?)?\s*\)
CallAt(s, p) ==
    LET k == QuotedKeyAt(s, SkipWhite(s, p + 2))
    IN  IF /\ p < Len(s) /\ s[p] = "t" /\ s[p + 1] = "("
           /\ (p = 1 \/ s[p - 1] \notin IdentChar)
           /\ k.ok /\ CallTailEnd(s, k.end) # 0
        THEN [ok |-> TRUE, key |-> k.key, end |-> CallTailEnd(s, k.end)]
        ELSE [ok |-> FALSE, key |-> "", end |-> 0]

\* the pattern of find_i18n_usage for one key (a KeyPath: key characters only, so
\* the escaped literal followed by a quote is the whole quoted run)
CallOfAt(s, p, key) == CallAt(s, p).ok /\ CallAt(s, p).key = key

RECURSIVE FindCalls(_, _)
\* pattern.finditer(content) of find_all_i18n_calls: (key, line_num) per match
FindCalls(s, from) ==
    IF from > Len(s) THEN <<>>
    ELSE IF CallAt(s, from).ok
         THEN <<[key |-> CallAt(s, from).key, line_num |-> LineNumAt(s, from)]>>
              \o FindCalls(s, CallAt(s, from).end + 1)
         ELSE FindCalls(s, from + 1)

RECURSIVE FindCallsOf(_, _, _)
\* pattern.finditer(content) of find_i18n_usage: the line_num of each match
FindCallsOf(s, from, key) ==
    IF from > Len(s) THEN <<>>
    ELSE IF CallOfAt(s, from, key)
         THEN <<LineNumAt(s, from)>> \o FindCallsOf(s, CallAt(s, from).end + 1, key)
         ELSE FindCallsOf(s, from + 1, key)

LabelToken == <<"l", "a", "b", "e", "l", "K", "e", "y">>

\* labelKey\s*:\s*[quote]([a-zA-Z0-9._\-]+)[quote] tried at p
LabelAt(s, p) ==
    LET c == SkipWhite(s, p + Len(LabelToken))
        k == QuotedKeyAt(s, SkipWhite(s, c + 1))
    IN  IF HasAt(s, p, LabelToken) /\ c <= Len(s) /\ s[c] = ":" /\ k.ok
        THEN k
        ELSE [ok |-> FALSE, key |-> "", end |-> 0]

RECURSIVE FindLabels(_, _)
FindLabels(s, from) ==
    IF from > Len(s) THEN <<>>
    ELSE IF LabelAt(s, from).ok
         THEN <<[key |-> LabelAt(s, from).key, line_num |-> LineNumAt(s, from)]>>
              \o FindLabels(s, LabelAt(s, from).end + 1)
         ELSE FindLabels(s, from + 1)

\* ------------------------------------------------------------ the source tree
\* A tree is the sequence of its files in directory-walk order; a file is
\* [dir, name, ext, text, readable] with dir the directories below the search
\* directory; open() or read() raises on a file that is not readable (no
\* permission, bytes that are not UTF-8).

RECURSIVE SlashJoin(_)
SlashJoin(parts) ==
    IF parts = <<>> THEN ""
    ELSE IF Len(parts) = 1 THEN parts[1]
    ELSE parts[1] \o "/" \o SlashJoin(Tail(parts))

\* str(file_path.relative_to(search_dir))
RelPath(f) == SlashJoin(Append(f.dir, f.name \o "." \o f.ext))

\* the extensions of the rglob loops, in the order of the loop
Extensions == <<"vue", "ts", "tsx", "js", "jsx">>

\* the directory names of the model that end in i18n
I18nDirs == {"i18n"}

\* the test for i18n/ in str(file_path) reversed: the file is not skipped
NotSkipped(f) == \A i \in 1..Len(f.dir) : f.dir[i] \notin I18nDirs

\* the files the two nested loops visit, in order
Scanned(tree) ==
    Flatten([e \in 1..Len(Extensions) |->
                SelectSeq(tree, LAMBDA f : f.ext = Extensions[e] /\ NotSkipped(f))])

SpecialFiles == <<"composables/rules/useRuleOptions.ts", "composables/filter/useFilterFields.ts">>

\* all_calls[key].append(rec), making the entry first when the key is new
AddUsage(calls, key, rec) ==
    [k \in DOMAIN calls \cup {key} |->
        (IF k \in DOMAIN calls THEN calls[k] ELSE <<>>) \o (IF k = key THEN <<rec>> ELSE <<>>)]

RECURSIVE AddMatches(_, _, _)
\* the matches ms of one file, appended in order under the path rel
AddMatches(calls, ms, rel) ==
    IF ms = <<>> THEN calls
    ELSE AddMatches(AddUsage(calls, ms[1].key, [file |-> rel, line |-> ms[1].line_num]),
                    Tail(ms), rel)

\* extract_label_keys_from_file: key -> list of (file, line); the except clause
\* leaves label_keys empty when the file cannot be read
ExtractLabelKeysFromFile(f) ==
    IF f.readable
    THEN AddMatches(EmptyTable, FindLabels(StripComments(f.text), 1), RelPath(f))
    ELSE EmptyTable

RECURSIVE ScanFilesAbort(_, _)
ScanFilesAbort(calls, fs) ==
    IF fs = <<>> THEN calls
    ELSE IF fs[1].readable
         THEN ScanFilesAbort(AddMatches(calls, FindCalls(StripComments(fs[1].text), 1),
                                        RelPath(fs[1])),
                             Tail(fs))
         ELSE calls

RECURSIVE ScanFiles(_, _)
\* the rglob loops of find_all_i18n_calls over the files fs; the try/except inside
\* the loop skips a file that cannot be read
ScanFiles(calls, fs) ==
    IF fs = <<>> THEN calls
    ELSE IF fs[1].readable
         THEN ScanFiles(AddMatches(calls, FindCalls(StripComments(fs[1].text), 1),
                                   RelPath(fs[1])),
                        Tail(fs))
         ELSE ScanFiles(calls, Tail(fs))

RECURSIVE MergeLabels(_, _, _)
\* the loop over special_files: all_calls[key].extend(locations) for each file there
MergeLabels(calls, tree, i) ==
    IF i > Len(SpecialFiles) THEN calls
    ELSE LET present == SelectSeq(tree, LAMBDA f : RelPath(f) = SpecialFiles[i])
             labels == IF present = <<>> THEN EmptyTable
                       ELSE ExtractLabelKeysFromFile(present[1])
             merged == [k \in DOMAIN calls \cup DOMAIN labels |->
                           (IF k \in DOMAIN calls THEN calls[k] ELSE <<>>)
                           \o (IF k \in DOMAIN labels THEN labels[k] ELSE <<>>)]
         IN  MergeLabels(merged, tree, i + 1)

\* find_all_i18n_calls(search_dir)
FindAllI18nCalls(tree) == MergeLabels(ScanFiles(EmptyTable, Scanned(tree)), tree, 1)

RECURSIVE UsageInFiles(_, _)
UsageInFiles(fs, key) ==
    IF fs = <<>> THEN <<>>
    ELSE IF fs[1].readable
         THEN LET ls == FindCallsOf(StripComments(fs[1].text), 1, key)
              IN  [i \in 1..Len(ls) |-> [file |-> RelPath(fs[1]), line |-> ls[i]]]
                  \o UsageInFiles(Tail(fs), key)
         ELSE UsageInFiles(Tail(fs), key)

\* find_i18n_usage(key, search_dir)
FindI18nUsage(key, tree) == UsageInFiles(Scanned(tree), key)

\* the files the except clauses of the two rglob loops print a warning for
UnreadableScanned(tree) ==
    {RelPath(Scanned(tree)[i]) : i \in {j \in 1..Len(Scanned(tree)) : ~Scanned(tree)[j].readable}}

\* the special files extract_label_keys_from_file prints a warning for
UnreadableSpecial(tree) ==
    {RelPath(tree[i]) : i \in {j \in 1..Len(tree) :
                                  /\ ~tree[j].readable
                                  /\ \E n \in 1..Len(SpecialFiles) : RelPath(tree[j]) = SpecialFiles[n]}}

\* label_key_usage of main: the keys of the labelKey properties of the special files
LabelKeyUsage(tree) ==
    UNION {DOMAIN ExtractLabelKeysFromFile(tree[i]) :
              i \in {j \in 1..Len(tree) : \E n \in 1..Len(SpecialFiles) :
                                              RelPath(tree[j]) = SpecialFiles[n]}}

\* ------------------------------------------------------------ declaration files
Segments == {"a", "b"}
RECURSIVE Spaces(_)
Spaces(n) == IF n = 0 THEN <<>> ELSE <<SP>> \o Spaces(n - 1)

\* the physical lines a declaration file of the model is made of
LocaleLineKinds == {"cat", "leaf", "blank", "close", "lcomment", "bopen", "bclose"}
TypesLineKinds == {"cat", "tleaf", "blank"}
DeclLine(kinds) ==
    {l \in [t : kinds, indent : 0..MaxIndent, seg : Segments] :
        /\ l.t \in {"blank", "close", "bopen", "bclose"} => l.indent = 0 /\ l.seg = "a"
        /\ l.t = "lcomment" => l.indent = 1 /\ l.seg = "a"}

LineText(l) ==
    CASE l.t = "cat" -> Spaces(l.indent) \o <<l.seg, ":", SP, "{">>
      [] l.t = "leaf" -> Spaces(l.indent) \o <<l.seg, ":", SP, "'", "x", "'", ",">>
      [] l.t = "tleaf" -> Spaces(l.indent) \o <<l.seg, ":", SP>> \o TypeToken
      [] l.t = "blank" -> <<>>
      [] l.t = "close" -> <<"}", ",">>
      [] l.t = "lcomment" -> Spaces(l.indent) \o <<"/", "/", "c">>
      [] l.t = "bopen" -> <<"/", "*", "c">>
      [] l.t = "bclose" -> <<"c", "*", "/">>

FileText(f) == JoinLines([i \in 1..Len(f) |-> LineText(f[i])])

DeclFiles(kinds, maxLines) == UNION {[1..n -> DeclLine(kinds)] : n \in 0..maxLines}

\* the type-definition files of the model are one line shorter than the locale files
MaxTypesLines == MaxLines - 1

\* ------------------------------------------------------------ state
VARIABLES
    pc,            \* position in the running function
    kind,          \* "locale" or "types": which extractor runs
    file,          \* the declaration file on disk, as its physical lines
    content,       \* content: the text read, then the text with comments removed
    lines,         \* lines: the original text split at newlines
    all_matches,   \* all_matches, sorted by position
    idx,           \* number of matches the loop has processed
    path_stack,    \* path_stack: (key, indent) pairs
    keys,          \* keys: KeyPath -> line number
    categories,    \* categories
    step,          \* the loop locals of the last iteration
    tree,          \* the source tree below the search directory
    all_calls,     \* all_calls: key -> list of (file, line)
    usage_key,     \* the key find_i18n_usage was last called with
    usages,        \* usages: the list find_i18n_usage returned
    en_keys, en_categories, zh_keys, zh_categories, types_keys,
    types_categories,        \* history: the KeyPaths the type extractor met as categories
    filtered_keys,           \* all_keys without all_categories
    missing_keys,
    label_key_usage,
    unused_keys,
    missing_in_zh_filtered,
    missing_in_en_filtered,
    report,                  \* the rows of the two inconsistency tables
    on_disk,                 \* what each extractor finds at the path of its file
    warnings                 \* the paths a warning has been printed for

extractVars == <<kind, file, content, lines, all_matches, idx, path_stack, keys, categories, step>>
scanVars == <<all_calls, usage_key, usages>>
tableVars == <<en_keys, en_categories, zh_keys, zh_categories, types_keys, types_categories>>
resultVars == <<filtered_keys, missing_keys, label_key_usage, unused_keys,
                missing_in_zh_filtered, missing_in_en_filtered, report>>
vars == <<pc, extractVars, tree, scanVars, tableVars, resultVars, on_disk, warnings>>

\* the declaration file an extractor of the given kind is called with
Artifact(k) == IF k = "types" THEN "types" ELSE "en"
\* no declaration file has been looked at
Unread == [a \in Artifacts |-> "unread"]

ExtractIdle ==
    /\ kind = "none" /\ file = <<>> /\ content = <<>> /\ lines = <<>>
    /\ all_matches = <<>> /\ idx = 0 /\ path_stack = <<>>
    /\ keys = [k \in {} |-> 0] /\ categories = {}
    /\ step = [line_num |-> 0, key |-> "", is_category |-> FALSE, indent_level |-> 0,
               full_key |-> ""]

ScanIdle == all_calls = [k \in {} |-> 0] /\ usage_key = "" /\ usages = <<>>

TablesIdle ==
    /\ en_keys = [k \in {} |-> 0] /\ en_categories = {}
    /\ zh_keys = [k \in {} |-> 0] /\ zh_categories = {}
    /\ types_keys = [k \in {} |-> 0] /\ types_categories = {}

ResultsIdle ==
    /\ filtered_keys = {} /\ missing_keys = {} /\ label_key_usage = {}
    /\ unused_keys = {} /\ missing_in_zh_filtered = {} /\ missing_in_en_filtered = {}
    /\ report = [zh |-> {}, en |-> {}]

NoStep == [line_num |-> 0, key |-> "", is_category |-> FALSE, indent_level |-> 0,
           full_key |-> ""]

InitExtract ==
    /\ pc = "open"
    /\ kind \in {"locale", "types"}
    /\ \E d \in DiskStates : on_disk = [Unread EXCEPT ![Artifact(kind)] = d]
    /\ file \in IF on_disk[Artifact(kind)] # "file" THEN {<<>>}
                ELSE IF kind = "locale" THEN DeclFiles(LocaleLineKinds, MaxLines)
                ELSE DeclFiles(TypesLineKinds, MaxTypesLines)
    /\ warnings = {}
    /\ content = <<>>
    /\ lines = <<>>
    /\ all_matches = <<>>
    /\ idx = 0
    /\ path_stack = <<>>
    /\ keys = EmptyTable
    /\ categories = {}
    /\ step = NoStep
    /\ tree = <<>>
    /\ ScanIdle /\ TablesIdle /\ ResultsIdle

\* open, read, split, strip the comments, collect and sort the matches
ReadAndMatch ==
    /\ pc = "open"
    /\ on_disk[Artifact(kind)] = "file"
    /\ lines' = Split(FileText(file))
    /\ content' = StripComments(FileText(file))
    /\ all_matches' = AllMatches(content', IF kind = "locale" THEN "locale_value" ELSE "types_value")
    /\ pc' = "loop"
    /\ UNCHANGED <<kind, file, idx, path_stack, keys, categories, step>>
    /\ UNCHANGED <<tree, scanVars, tableVars, resultVars, on_disk, warnings>>

\* if not file_path.exists(): print the warning, return the empty keys (and categories)
WarnNotFound ==
    /\ pc = "open"
    /\ on_disk[Artifact(kind)] = "absent"
    /\ warnings' = warnings \cup {PathOf(Artifact(kind))}
    /\ pc' = "done"
    /\ UNCHANGED <<extractVars, tree, scanVars, tableVars, resultVars, on_disk>>

\* open() or read() raises: no handler in the function, the exception leaves it
OpenRaises ==
    /\ pc = "open"
    /\ on_disk[Artifact(kind)] = "undecodable"
    /\ pc' = "raised"
    /\ UNCHANGED <<extractVars, tree, scanVars, tableVars, resultVars, on_disk, warnings>>

\* one iteration of: for position, line_num, key, is_category in all_matches
ProcessMatch ==
    /\ pc = "loop"
    /\ idx < Len(all_matches)
    /\ LET m == all_matches[idx + 1]
           indent == IndentLevel(CurrentLine(lines, m.line_num))
           fk == FullKey(path_stack, m, indent)
       IN  /\ path_stack' = NextStack(path_stack, m, indent)
           /\ keys' = RecordFirst(keys, fk, m.line_num)
           /\ categories' = IF kind = "locale"
                            THEN AddCategory(categories, m, fk) ELSE categories
           /\ step' = [line_num |-> m.line_num, key |-> m.key,
                       is_category |-> m.is_category, indent_level |-> indent,
                       full_key |-> fk]
    /\ idx' = idx + 1
    /\ UNCHANGED <<pc, kind, file, content, lines, all_matches>>
    /\ UNCHANGED <<tree, scanVars, tableVars, resultVars, on_disk, warnings>>

\* return keys, categories
ReturnKeys ==
    /\ pc = "loop"
    /\ idx = Len(all_matches)
    /\ pc' = "done"
    /\ UNCHANGED <<extractVars, tree, scanVars, tableVars, resultVars, on_disk, warnings>>

NextExtract == ReadAndMatch \/ WarnNotFound \/ OpenRaises \/ ProcessMatch \/ ReturnKeys

SpecExtract == InitExtract /\ [][NextExtract]_vars

\* ------------------------------------------------------------ source files of the model
MaxPieces == 4

\* the fragments a scanned source text of the model is made of
Pieces ==
    { <<"t", "(", "'", "a", "'", ")">>,
      <<"t", "(", "'", "b", "'", ")">>,
      <<"t", "(", "'", "a", "'", ",">>,
      <<")">>,
      <<NL>>,
      <<"/", "/">>,
      <<"/", "*">>,
      <<"*", "/">>,
      <<"x">> }

\* the texts of at most n fragments
TextsUpTo(n) == {Flatten(ps) : ps \in UNION {[1..k -> Pieces] : k \in 0..n}}
SourceTexts == TextsUpTo(MaxPieces)

AppFile(text) ==
    [dir |-> <<"views">>, name |-> "App", ext |-> "vue", text |-> text, readable |-> TRUE]
RuleFile(text) ==
    [dir |-> <<"composables", "rules">>, name |-> "useRuleOptions", ext |-> "ts",
     text |-> text, readable |-> TRUE]
LocaleFile(text) ==
    [dir |-> <<"i18n", "locales">>, name |-> "en", ext |-> "ts", text |-> text,
     readable |-> TRUE]
\* the same file when reading it fails
Unreadable(f) == [f EXCEPT !.readable = FALSE]

LabelA == LabelToken \o <<":", SP, "'", "a", "'">>
CallA == <<"t", "(", "'", "a", "'", ")">>

\* what stands in the tree next to the scanned component
Companions == { <<>>, <<RuleFile(LabelA)>>, <<LocaleFile(CallA)>> }

\* a component the walk meets before App.vue and cannot read
BadFile ==
    Unreadable([dir |-> <<"views">>, name |-> "Bad", ext |-> "vue", text |-> CallA,
                readable |-> TRUE])

\* unreadable files the walk meets before and after the scanned component
Failing ==
    { [before |-> <<BadFile>>, after |-> <<>>],
      [before |-> <<>>, after |-> <<Unreadable(RuleFile(LabelA))>>] }

ScanTrees == {<<AppFile(t)>> \o c : t \in SourceTexts, c \in Companions}

\* the trees with an unreadable file hold a component one fragment shorter
FailingTrees ==
    {w.before \o <<AppFile(t)>> \o w.after : t \in TextsUpTo(MaxPieces - 1), w \in Failing}

ScanKeys == {"a", "b"}

InitScan ==
    /\ pc = "scan"
    /\ (tree \in ScanTrees \/ tree \in FailingTrees)
    /\ ExtractIdle /\ ScanIdle /\ TablesIdle /\ ResultsIdle
    /\ on_disk = Unread
    /\ warnings = {}

\* all_calls = find_all_i18n_calls(search_dir)
CallFindAllI18nCalls ==
    /\ pc = "scan"
    /\ all_calls' = FindAllI18nCalls(tree)
    /\ warnings' = warnings \cup UnreadableScanned(tree) \cup UnreadableSpecial(tree)
    /\ pc' = "indexed"
    /\ UNCHANGED <<extractVars, tree, usage_key, usages, tableVars, resultVars, on_disk>>

\* usages = find_i18n_usage(key, search_dir)
CallFindI18nUsage ==
    /\ pc = "indexed"
    /\ \E k \in ScanKeys :
        /\ usage_key' = k
        /\ usages' = FindI18nUsage(k, tree)
    /\ warnings' = warnings \cup UnreadableScanned(tree)
    /\ pc' = "looked_up"
    /\ UNCHANGED <<extractVars, tree, all_calls, tableVars, resultVars, on_disk>>

NextScan == CallFindAllI18nCalls \/ CallFindI18nUsage

SpecScan == InitScan /\ [][NextScan]_vars

\* ------------------------------------------------------------ main
MaxMainLines == 2

\* the physical lines of the declaration files main is run on
MainLocaleLines ==
    { [t |-> "cat", indent |-> 0, seg |-> "a"],
      [t |-> "leaf", indent |-> 0, seg |-> "a"],
      [t |-> "leaf", indent |-> 1, seg |-> "b"],
      [t |-> "blank", indent |-> 0, seg |-> "a"] }
MainTypesLines ==
    { [t |-> "cat", indent |-> 0, seg |-> "a"],
      [t |-> "tleaf", indent |-> 0, seg |-> "a"],
      [t |-> "tleaf", indent |-> 1, seg |-> "b"] }
MainLocaleFiles == UNION {[1..n -> MainLocaleLines] : n \in 0..MaxMainLines}
MainTypesFiles == UNION {[1..n -> MainTypesLines] : n \in 0..MaxMainLines}

CallAB == <<"t", "(", "'", "a", ".", "b", "'", ")">>
NestedBA == <<"t", "(", "'", "b", "'", ",", SP>> \o CallA \o <<")">>
MainTexts == { <<>>, CallA, CallAB, NestedBA }
MainTrees ==
    {<<AppFile(t)>> \o c : t \in MainTexts,
                           c \in Companions \cup {<<Unreadable(RuleFile(LabelA))>>}}

InitMain ==
    /\ pc = "main"
    /\ tree \in MainTrees
    /\ ExtractIdle /\ ScanIdle /\ TablesIdle /\ ResultsIdle
    /\ on_disk = Unread
    /\ warnings = {}

\* en_keys, en_categories = extract_keys_from_locale(EN_FILE)
MainExtractEn ==
    /\ pc = "main"
    /\ \E d \in DiskStates : \E f \in IF d = "file" THEN MainLocaleFiles ELSE {<<>>} :
        \E r \in {ExtractLocaleFile(d, FileText(f))} :
            /\ on_disk' = [on_disk EXCEPT !["en"] = d]
            /\ en_keys' = r.keys
            /\ en_categories' = r.categories
            /\ warnings' = IF r.warned THEN warnings \cup {EN_FILE} ELSE warnings
            /\ pc' = IF r.raised THEN "raised" ELSE "en"
    /\ UNCHANGED <<extractVars, tree, scanVars, resultVars>>
    /\ UNCHANGED <<zh_keys, zh_categories, types_keys, types_categories>>

\* zh_keys, zh_categories = extract_keys_from_locale(ZH_FILE)
MainExtractZh ==
    /\ pc = "en"
    /\ \E d \in DiskStates : \E f \in IF d = "file" THEN MainLocaleFiles ELSE {<<>>} :
        \E r \in {ExtractLocaleFile(d, FileText(f))} :
            /\ on_disk' = [on_disk EXCEPT !["zh"] = d]
            /\ zh_keys' = r.keys
            /\ zh_categories' = r.categories
            /\ warnings' = IF r.warned THEN warnings \cup {ZH_FILE} ELSE warnings
            /\ pc' = IF r.raised THEN "raised" ELSE "zh"
    /\ UNCHANGED <<extractVars, tree, scanVars, resultVars>>
    /\ UNCHANGED <<en_keys, en_categories, types_keys, types_categories>>

\* types_keys = extract_keys_from_types(TYPES_FILE)
MainExtractTypes ==
    /\ pc = "zh"
    /\ \E d \in DiskStates : \E f \in IF d = "file" THEN MainTypesFiles ELSE {<<>>} :
        \E r \in {ExtractTypesFile(d, FileText(f))} :
            /\ on_disk' = [on_disk EXCEPT !["types"] = d]
            /\ types_keys' = r.keys
            /\ types_categories' = r.categories
            /\ warnings' = IF r.warned THEN warnings \cup {TYPES_FILE} ELSE warnings
            /\ pc' = IF r.raised THEN "raised" ELSE "types"
    /\ UNCHANGED <<extractVars, tree, scanVars, resultVars>>
    /\ UNCHANGED <<en_keys, en_categories, zh_keys, zh_categories>>

\* all_categories = en_categories | zh_categories
AllCategories == en_categories \cup zh_categories

AllKeysOfLocales == DOMAIN en_keys \cup DOMAIN zh_keys

\* set(all_keys)
AllKeys == DOMAIN en_keys \cup DOMAIN zh_keys \cup DOMAIN types_keys

\* the keys kept after the filter, when the filter keeps everything
KeepAll(ks, cats) == ks

\* [key for key in ks if key not in cats]
WithoutCategories(ks, cats) == ks \ cats

\* the loop that fills unused_keys
Unused(ks, tr, labels) == {k \in ks : Len(FindI18nUsage(k, tr)) = 0 /\ k \notin labels}

\* from all_categories to unused_keys: the sets main computes from the tables
\* and the scans (the sorted lists of the source are kept as sets)
MainScan ==
    /\ pc = "types"
    /\ filtered_keys' = WithoutCategories(AllKeys, AllCategories)
    /\ all_calls' = FindAllI18nCalls(tree)
    /\ missing_keys' = DOMAIN all_calls' \ AllKeys
    /\ label_key_usage' = LabelKeyUsage(tree)
    /\ unused_keys' = Unused(filtered_keys', tree, label_key_usage')
    /\ warnings' = warnings \cup UnreadableScanned(tree) \cup UnreadableSpecial(tree)
    /\ pc' = "scanned"
    /\ UNCHANGED <<extractVars, tree, usage_key, usages, tableVars, on_disk>>
    /\ UNCHANGED <<missing_in_zh_filtered, missing_in_en_filtered, report>>

\* the inconsistency lists and the rows of the two report tables
MainInconsistencies ==
    /\ pc = "scanned"
    /\ missing_in_zh_filtered' =
           WithoutCategories(DOMAIN en_keys \ DOMAIN zh_keys, AllCategories)
    /\ missing_in_en_filtered' =
           WithoutCategories(DOMAIN zh_keys \ DOMAIN en_keys, AllCategories)
    /\ report' = [zh |-> {<<k, en_keys[k]>> : k \in missing_in_zh_filtered'},
                  en |-> {<<k, zh_keys[k]>> : k \in missing_in_en_filtered'}]
    /\ pc' = "reconciled"
    /\ UNCHANGED <<extractVars, tree, scanVars, tableVars, on_disk, warnings>>
    /\ UNCHANGED <<filtered_keys, missing_keys, label_key_usage, unused_keys>>

\* ------------------------------------------------------------ call expressions
MaxCallPieces == 4

\* the fragments of the texts the call patterns are tried on: the opening of a
\* call, quoted arguments, the closing parenthesis, and what may stand before t
CallPieces ==
    { <<"t", "(">>,
      <<"'", "a", "'">>,
      <<"'", "a", "-", "b", "'">>,
      <<"'", "a", "/", "b", "'">>,
      <<")">>,
      <<"e", "m", "i">>,
      <<"_">>,
      <<"8">>,
      <<SP>> }

CallTexts == {Flatten(ps) : ps \in UNION {[1..n -> CallPieces] : n \in 0..MaxCallPieces}}

CallTrees == {<<AppFile(t)>> : t \in CallTexts}

InitCalls ==
    /\ pc = "scan"
    /\ tree \in CallTrees
    /\ ExtractIdle /\ ScanIdle /\ TablesIdle /\ ResultsIdle
    /\ on_disk = Unread
    /\ warnings = {}

SpecCalls == InitCalls /\ [][NextScan]_vars

NextMain ==
    MainExtractEn \/ MainExtractZh \/ MainExtractTypes \/ MainScan \/ MainInconsistencies

SpecMain == InitMain /\ [][NextMain]_vars

\* ------------------------------------------------------------ properties of one run

\* C2: comment stripping returns a buffer with as many lines as the text it was
\* given (no newline is deleted), also when a block comment spans several lines.
C2_LineCountPreserved ==
    pc \in {"loop", "done"} /\ on_disk[Artifact(kind)] = "file" =>
        LineCount(content) = Len(lines)

IsDecl(l) == l.t \in {"cat", "leaf", "tleaf"}

\* the categories open at physical line n of f: every earlier category line of
\* smaller indentation that no declaration in between, at the same or a smaller
\* indentation, has closed (outermost first)
OpenCategories(f, n) ==
    SelectSeq([j \in 1..(n - 1) |-> j],
              LAMBDA j : /\ f[j].t = "cat"
                         /\ f[j].indent < f[n].indent
                         /\ \A m \in (j + 1)..(n - 1) :
                                IsDecl(f[m]) => f[m].indent > f[j].indent)

ExpectedPath(f, n) ==
    DotJoin([i \in 1..Len(OpenCategories(f, n)) |-> f[OpenCategories(f, n)[i]].seg]
            \o <<f[n].seg>>)

\* each declaration sits one indentation step below the category that holds it,
\* and the lines between declarations are blank, comment-only or closing lines
WellFormed(f) ==
    /\ \A n \in 1..Len(f) : f[n].t \notin {"bopen", "bclose"}
    /\ \A n \in 1..Len(f) : IsDecl(f[n]) => f[n].indent = Len(OpenCategories(f, n))

\* C3: in a well-formed nested declaration file the KeyPath recorded for every
\* leaf is the dot-join of the categories open at the leaf, then its own segment.
C3_LeafPathIsOpenChain ==
    (pc = "done" /\ kind = "locale" /\ WellFormed(file)) =>
        \A n \in 1..Len(file) :
            file[n].t = "leaf" => ExpectedPath(file, n) \in DOMAIN keys

\* the entries of a stack that a match at indentation i leaves open
StillOpen(stack, i) == SelectSeq(stack, LAMBDA e : e.indent < i)

\* C4: a match at indentation i closes every open category of indentation >= i
\* before its own path is built: the path is made of the categories of smaller
\* indentation only, and the stack keeps exactly those (plus a pushed category).
C4_ClosesAtOrDeeper ==
    [][idx' = idx + 1 =>
          LET i == step'.indent_level
              open == StillOpen(path_stack, i)
          IN  /\ step'.full_key = DotJoin(StackSegments(open) \o <<step'.key>>)
              /\ path_stack' = IF step'.is_category
                               THEN Append(open, [key |-> step'.key, indent |-> i])
                               ELSE open]_vars

\* a category that follows a sibling category at the same indentation has become
\* a child of the parent (a: at 0, b: at 1, a: at 1 gives a.a)
C4_Witness ==
    /\ idx = 3
    /\ \A j \in 1..3 : all_matches[j].is_category
    /\ step.indent_level = 1
    /\ Len(path_stack) = 2
    /\ "a.b" \in DOMAIN keys
    /\ step.full_key = "a.a"

\* C5: within one pass an entry of the DeclarationTable never changes: a later
\* declaration of the same KeyPath leaves the line of the first one in place.
C5_FirstOccurrenceKept ==
    [][\A k \in DOMAIN keys : k \in DOMAIN keys' /\ keys'[k] = keys[k]]_vars

\* a KeyPath was declared a second time, on a later line
C5_Witness ==
    /\ idx >= 2
    /\ step.full_key \in DOMAIN keys
    /\ keys[step.full_key] < step.line_num

\* ------------------------------------------------------------ properties of the scanners

RECURSIVE CommentPositions(_, _)
\* the positions of s from i on that lie in a comment, read as the language reads
\* them in one pass: // opens a comment up to the end of its line, /* one up to the
\* matching */, and a marker inside a comment opens nothing
CommentPositions(s, i) ==
    IF i >= Len(s) THEN {}
    ELSE IF s[i] = "/" /\ s[i + 1] = "/"
         THEN i..(LineEnd(s, i + 2) - 1) \cup CommentPositions(s, LineEnd(s, i + 2))
    ELSE IF s[i] = "/" /\ s[i + 1] = "*" /\ BlockEnd(s, i + 2) # 0
         THEN i..(BlockEnd(s, i + 2) + 1) \cup CommentPositions(s, BlockEnd(s, i + 2) + 2)
    ELSE CommentPositions(s, i + 1)

\* the positions of text where a t() call naming k starts
CallPositions(text, k) == {p \in 1..Len(text) : CallOfAt(text, p, k)}

\* text has calls naming k, and each of them stands inside a comment
OnlyInComments(text, k) ==
    /\ CallPositions(text, k) # {}
    /\ CallPositions(text, k) \subseteq CommentPositions(text, 1)

RecordsOf(table, k) == IF k \in DOMAIN table THEN table[k] ELSE <<>>

FromFile(recs, f) == SelectSeq(recs, LAMBDA r : r.file = RelPath(f))

\* C8: a t() call for k that stands only inside comments of a file yields no
\* UsageRecord of that file for k, in find_all_i18n_calls and in find_i18n_usage,
\* whatever the arrangement of the comment markers.
C8_CommentImmunity ==
    pc = "looked_up" =>
        \A i \in 1..Len(tree) : \A k \in ScanKeys :
            OnlyInComments(tree[i].text, k) =>
                /\ FromFile(RecordsOf(all_calls, k), tree[i]) = <<>>
                /\ usage_key = k => FromFile(usages, tree[i]) = <<>>

\* C10: the per-key scan returns the records the global index holds for the key
\* (none when the index has no entry), nested calls and labelKey references
\* included.
C10_PerKeyEqualsIndex ==
    pc = "looked_up" => usages = RecordsOf(all_calls, usage_key)

\* ------------------------------------------------------------ properties of main
MainKeys == {"a", "b", "a.b"}

\* C1: a KeyPath declared as a category in the en locale, the zh locale or the
\* type definitions is in none of filtered_keys, missing_keys and unused_keys.
C1_CategoriesExcluded ==
    pc = "reconciled" =>
        \A k \in en_categories \cup zh_categories \cup types_categories :
            k \notin filtered_keys /\ k \notin missing_keys /\ k \notin unused_keys

\* the files of the tree that the scan reads for t() calls
ScannedFiles == {tree[i] : i \in {j \in 1..Len(tree) : NotSkipped(tree[j])}}

\* C6: a key declared nowhere and called by t() outside comments in a scanned
\* file, wherever the call stands, is in missing_keys, and all_calls holds a
\* record with the path of the file and the line of the call.
C6_UndeclaredCallIsMissing ==
    pc = "reconciled" =>
        \A f \in ScannedFiles : \A k \in MainKeys \ AllKeys :
            \A p \in CallPositions(f.text, k) \ CommentPositions(f.text, 1) :
                /\ k \in missing_keys
                /\ \E i \in 1..Len(RecordsOf(all_calls, k)) :
                       all_calls[k][i] = [file |-> RelPath(f), line |-> LineNumAt(f.text, p)]

\* C7: a key of filtered_keys is in unused_keys exactly when the index all_calls
\* has no record for it and it is no key of label_key_usage.
C7_UnusedIffNoUsage ==
    pc = "reconciled" =>
        \A k \in filtered_keys :
            k \in unused_keys <=> (RecordsOf(all_calls, k) = <<>> /\ k \notin label_key_usage)

\* C9: a key outside all_categories that en declares and zh does not is a row of
\* the missing-in-zh table with the line en stores, and is not listed as missing
\* in en (and the same with the locales exchanged); the two lists are disjoint
\* and hold no category.
C9_CrossLocale ==
    pc = "reconciled" =>
        /\ \A k \in DOMAIN en_keys \ (DOMAIN zh_keys \cup AllCategories) :
               /\ k \in missing_in_zh_filtered /\ k \notin missing_in_en_filtered
               /\ \A row \in report.zh : row[1] = k => row[2] = en_keys[k]
               /\ <<k, en_keys[k]>> \in report.zh
        /\ \A k \in DOMAIN zh_keys \ (DOMAIN en_keys \cup AllCategories) :
               /\ k \in missing_in_en_filtered /\ k \notin missing_in_zh_filtered
               /\ \A row \in report.en : row[1] = k => row[2] = zh_keys[k]
               /\ <<k, zh_keys[k]>> \in report.en
        /\ missing_in_zh_filtered \cap missing_in_en_filtered = {}
        /\ (missing_in_zh_filtered \cup missing_in_en_filtered) \cap AllCategories = {}

\* en declares the category a and, on its line 2, the leaf a.b; zh declares
\* neither: a.b is reported with line 2 and the category a is filtered out
C9_Witness ==
    /\ pc = "reconciled"
    /\ DOMAIN zh_keys = {}
    /\ "a" \in en_categories
    /\ "a.b" \in DOMAIN en_keys /\ en_keys["a.b"] = 2
    /\ report.zh = {<<"a.b", 2>>}
    /\ missing_in_en_filtered = {}

\* ------------------------------------------------------------ missing and unreadable inputs
KeysOf(a) == CASE a = "en" -> en_keys [] a = "zh" -> zh_keys [] a = "types" -> types_keys

\* the values of pc at which the extractor of artifact a has returned
Returned(a) ==
    CASE a = "en" -> {"en", "zh", "types", "scanned", "reconciled"}
      [] a = "zh" -> {"zh", "types", "scanned", "reconciled"}
      [] a = "types" -> {"types", "scanned", "reconciled"}

\* the declaration files that exist
Existing == {a \in Artifacts : on_disk[a] = "file"}

\* C11: the extractor of a declaration file that does not exist prints a warning
\* and returns an empty table (and an empty category set) without raising, and
\* the sets main ends with are those computed from the existing files alone.
C11_MissingArtifact ==
    /\ pc = "raised" => \E a \in Artifacts : on_disk[a] = "undecodable"
    /\ \A a \in Artifacts :
           on_disk[a] = "absent" /\ pc \in Returned(a) =>
               /\ PathOf(a) \in warnings
               /\ KeysOf(a) = EmptyTable
               /\ a = "en" => en_categories = {}
               /\ a = "zh" => zh_categories = {}
    /\ pc = "reconciled" =>
           LET declared == UNION {DOMAIN KeysOf(a) : a \in Existing}
               cats == (IF "en" \in Existing THEN en_categories ELSE {})
                       \cup (IF "zh" \in Existing THEN zh_categories ELSE {})
               en == IF "en" \in Existing THEN DOMAIN en_keys ELSE {}
               zh == IF "zh" \in Existing THEN DOMAIN zh_keys ELSE {}
           IN  /\ filtered_keys = declared \ cats
               /\ missing_keys = DOMAIN all_calls \ declared
               /\ unused_keys = Unused(declared \ cats, tree, label_key_usage)
               /\ missing_in_zh_filtered = (en \ zh) \ cats
               /\ missing_in_en_filtered = (zh \ en) \ cats

\* en.ts does not exist, zh.ts declares a leaf and a source file calls a key
\* declared nowhere: the run ends with the leaf reported as missing in en
C11_Witness ==
    /\ pc = "reconciled"
    /\ on_disk["en"] = "absent" /\ on_disk["zh"] = "file"
    /\ EN_FILE \in warnings
    /\ missing_in_en_filtered # {}
    /\ missing_keys # {}

\* the tree without the files that cannot be read
ReadableOnly(tr) == SelectSeq(tr, LAMBDA f : f.readable)

\* C12: a source file that cannot be read yields no UsageRecord and a warning,
\* and the records of the other files are those of the scan of the tree without
\* it, in find_all_i18n_calls and in find_i18n_usage.
C12_UnreadableSkipped ==
    pc = "looked_up" =>
        /\ \A i \in 1..Len(tree) :
               ~tree[i].readable /\ NotSkipped(tree[i]) =>
                   /\ RelPath(tree[i]) \in warnings
                   /\ \A k \in DOMAIN all_calls : FromFile(all_calls[k], tree[i]) = <<>>
                   /\ FromFile(usages, tree[i]) = <<>>
        /\ all_calls = FindAllI18nCalls(ReadableOnly(tree))
        /\ usages = FindI18nUsage(usage_key, ReadableOnly(tree))

\* the walk meets the unreadable Bad.vue first and still records the call of
\* App.vue, in the index and in the per-key list
C12_Witness ==
    /\ pc = "looked_up"
    /\ Len(tree) = 2 /\ ~tree[1].readable /\ tree[2].readable
    /\ RelPath(tree[1]) \in warnings
    /\ usage_key = "a"
    /\ usages = <<[file |-> RelPath(tree[2]), line |-> 1]>>
    /\ RecordsOf(all_calls, "a") = usages

\* C13: no exception leaves an extractor or a scanner and main always reaches
\* the end of the reconciliation, whatever is missing, unreadable or undecodable
\* among the declaration files and the source files.
C13_NothingRaises ==
    pc # "raised"

\* ------------------------------------------------------------ the missing-key set

\* C14: missing_keys is the keys of the index minus the all-keys set, the all-keys
\* set being the keys of the three tables with the categories of both locales
\* removed; so a key that is called and declared only as a category is missing.
C14_MissingIsCallsMinusFiltered ==
    pc \in {"scanned", "reconciled"} =>
        missing_keys =
            DOMAIN all_calls
            \ ((DOMAIN en_keys \cup DOMAIN zh_keys \cup DOMAIN types_keys)
                 \ (en_categories \cup zh_categories))

\* C14 as amended: missing_keys is the keys of the index minus every key of the
\* three tables, categories included; a key that is called and declared as a
\* category is not missing.
C14_MissingIsCallsMinusDeclared ==
    pc \in {"scanned", "reconciled"} =>
        missing_keys =
            DOMAIN all_calls \ (DOMAIN en_keys \cup DOMAIN zh_keys \cup DOMAIN types_keys)

\* a is declared as a category of en and called by t(); it is not missing, while
\* the index holds it
C14_Witness ==
    /\ pc = "reconciled"
    /\ "a" \in en_categories
    /\ "a" \in DOMAIN all_calls
    /\ "a" \notin missing_keys
    /\ "a" \notin filtered_keys

\* ------------------------------------------------------------ lines without a declaration

\* a physical line that matches neither pattern and opens or closes no comment
Inert(l) == l.t \in {"blank", "close", "lcomment"}

\* the file f without its physical line n
RemoveAt(f, n) == [i \in 1..(Len(f) - 1) |-> IF i < n THEN f[i] ELSE f[i + 1]]

\* what the extractor of kind k returns for the text
ExtractOf(k, text) ==
    IF k = "locale" THEN ExtractKeysFromLocale(text)
    ELSE [keys |-> ExtractKeysFromTypes(text), categories |-> {}]

\* C15: deleting (or inserting) a blank, comment-only or closing-brace line
\* leaves the KeyPaths of the table and the category set as they are, and moves
\* the stored line numbers only by the shift of the lines below the edit.
C15_InertLines ==
    (pc = "done" /\ on_disk[Artifact(kind)] = "file") =>
        \A n \in 1..Len(file) :
            Inert(file[n]) =>
                LET r == ExtractOf(kind, FileText(RemoveAt(file, n)))
                IN  /\ DOMAIN r.keys = DOMAIN keys
                    /\ r.categories = categories
                    /\ \A k \in DOMAIN keys \cap DOMAIN r.keys :
                           keys[k] = IF r.keys[k] >= n THEN r.keys[k] + 1 ELSE r.keys[k]

\* ------------------------------------------------------------ the line of a declaration

\* C16: the line number of every processed match is the physical line that holds
\* the segment of the declaration, and the indentation compared with the stack
\* is the leading whitespace of that line.
C16_LineOfSegment ==
    (pc \in {"loop", "done"} /\ idx > 0) =>
        /\ step.line_num \in 1..Len(file)
        /\ IsDecl(file[step.line_num])
        /\ file[step.line_num].seg = step.key
        /\ file[step.line_num].indent = step.indent_level

\* ------------------------------------------------------------ the stack and the table

\* C18: the indentations of path_stack increase strictly from bottom to top;
\* after a match every entry below a pushed category, and every entry after a
\* leaf, has an indentation smaller than that of the match: a leaf is not pushed
\* and no two entries share an indentation.
C18_StackStrictlyIncreasing ==
    /\ \A i \in 1..(Len(path_stack) - 1) : path_stack[i].indent < path_stack[i + 1].indent
    /\ idx > 0 =>
           LET below == IF step.is_category
                        THEN SubSeq(path_stack, 1, Len(path_stack) - 1)
                        ELSE path_stack
           IN  /\ \A i \in 1..Len(below) : below[i].indent < step.indent_level
               /\ step.is_category =>
                      /\ path_stack # <<>>
                      /\ path_stack[Len(path_stack)] =
                             [key |-> step.key, indent |-> step.indent_level]

\* a leaf at indentation 1 was processed under the category of indentation 0
\* and the stack still holds that category alone
C18_Witness ==
    /\ idx = 3
    /\ ~step.is_category
    /\ step.indent_level = 1
    /\ all_matches[2].is_category
    /\ Len(path_stack) = 1 /\ path_stack[1].indent = 0
    /\ step.full_key = "a.b"

\* the KeyPaths of at most n segments, as their segments
Paths(n) == UNION {[1..d -> Segments] : d \in 1..n}

\* the path without its last segment
Parent(p) == SubSeq(p, 1, Len(p) - 1)

\* C19: after every match of extract_keys_from_locale the table is closed under
\* dropping the last segment, the shorter KeyPath being a category, and every
\* category is a key of the table.
C19_PrefixClosed ==
    kind = "locale" =>
        /\ \A p \in Paths(MaxLines) :
               Len(p) > 1 /\ DotJoin(p) \in DOMAIN keys =>
                   DotJoin(Parent(p)) \in DOMAIN keys \cap categories
        /\ categories \subseteq DOMAIN keys

\* the table holds a KeyPath of three segments with its two ancestors
C19_Witness ==
    /\ kind = "locale" /\ pc = "done"
    /\ "a.b.a" \in DOMAIN keys
    /\ {"a", "a.b"} \subseteq categories
    /\ "a.b.a" \notin categories

\* ------------------------------------------------------------ the name of the function

\* a call of a function named exactly t stands at p of s, its first argument the
\* quoted literal k made of key characters only
StandaloneCall(s, p, k) ==
    /\ p < Len(s) /\ s[p] = "t" /\ s[p + 1] = "("
    /\ p = 1 \/ s[p - 1] \notin (Letters \cup Digits \cup {"_"})
    /\ \E q \in (p + 2)..Len(s), r \in (p + 2)..Len(s) :
           /\ q + 1 < r
           /\ \A i \in (p + 2)..(q - 1) : s[i] \in WhiteSpace
           /\ s[q] \in Quotes /\ s[r] \in Quotes
           /\ \A i \in (q + 1)..(r - 1) : s[i] \in KeyChar
           /\ Str(SubSeq(s, q + 1, r - 1)) = k

\* C17: every record of the index and of the per-key list comes from a call of
\* a function named exactly t with a key of key characters only: a t( that
\* ends a longer identifier (emit, _t, 8t) yields no record.
C17_OnlyStandaloneT ==
    pc = "looked_up" =>
        /\ \A k \in DOMAIN all_calls : \A i \in 1..Len(all_calls[k]) :
               \E p \in 1..Len(tree[1].text) :
                   /\ StandaloneCall(tree[1].text, p, k)
                   /\ LineNumAt(tree[1].text, p) = all_calls[k][i].line
        /\ \A i \in 1..Len(usages) :
               \E p \in 1..Len(tree[1].text) :
                   /\ StandaloneCall(tree[1].text, p, usage_key)
                   /\ LineNumAt(tree[1].text, p) = usages[i].line
        /\ Len(RecordsOf(all_calls, "a"))
               <= Cardinality({p \in 1..Len(tree[1].text) :
                                  StandaloneCall(tree[1].text, p, "a")})

\* the text is emit('a') and the scan has recorded nothing
C17_Witness ==
    /\ pc = "looked_up"
    /\ tree[1].text = <<"e", "m", "i", "t", "(", "'", "a", "'", ")">>
    /\ usage_key = "a"
    /\ usages = <<>>
    /\ DOMAIN all_calls = {}

====
